---------------------------- MODULE Spec2Model ----------------------------
(***************************************************************************)
(* Model of the SPC notebook (src/notebook.ipynb): a CSV of manufacturing  *)
(* parts is loaded into a DataFrame, written to the PostgreSQL table       *)
(* manufacturing_parts, evaluated by one SQL window query and the result   *)
(* is labelled and filtered in a second DataFrame.                         *)
(*                                                                         *)
(* Numbers.  Heights are exact integers (a fixed-point reading of the      *)
(* double precision column).  The computed columns are exact numbers of    *)
(* the form  qn/qd + sgn * sqrt(rn/rd)  or SQL NULL, so that the strict    *)
(* and non-strict comparisons of the query are decided exactly.            *)
(* Operators are identified by their rank in the collation order of the    *)
(* operator column ("Op-1" < "Op-10" < "Op-2" ...).  The columns length    *)
(* and width of the table are never read by the query and are left out.    *)
(***************************************************************************)
EXTENDS Integers, Sequences, FiniteSets, Bags, TLC

VARIABLES csv, data_frame, table, result, df, filtered_df, pc

vars == <<csv, data_frame, table, result, df, filtered_df, pc>>

(***************************************************************************)
(* Bounds of the model.                                                    *)
(***************************************************************************)
\* largest height of the files
MaxHeight == 1
\* most rows of a file over the full row domain
MaxRows == 2

(***************************************************************************)
(* Program constants of the query.                                         *)
(***************************************************************************)
Preceding == 4
Sigmas == 3
SqrtArg == 5

NULL == -1

Operators == {1, 2}
ItemNos == {1, 2}
Heights == 0..MaxHeight
\* rows of the longest file: one more than a full frame, so that a record
\* leaves the frame of a later one
MaxLong == Preceding + 2
NullableHeights == Heights \cup {NULL}

(***************************************************************************)
(* Exact arithmetic.                                                       *)
(***************************************************************************)
Abs(x) == IF x < 0 THEN -x ELSE x

Sign(x) == IF x < 0 THEN -1 ELSE IF x = 0 THEN 0 ELSE 1

RECURSIVE GCD(_, _)
GCD(a, b) == IF b = 0 THEN a ELSE GCD(b, a % b)

\* the rational n/d (d > 0) in lowest terms
Rat(n, d) ==
    LET g == GCD(Abs(n), d)
    IN  [num |-> n \div g, den |-> d \div g]

NullNumber == [null |-> TRUE, qn |-> 0, qd |-> 1, sgn |-> 0, rn |-> 0, rd |-> 1]

\* the number q + sgn * sqrt(r) for rationals q and r >= 0
Number(q, s, r) ==
    [null |-> FALSE, qn |-> q.num, qd |-> q.den,
     sgn |-> IF r.num = 0 THEN 0 ELSE s, rn |-> r.num, rd |-> r.den]

RECURSIVE SumSeq(_)
SumSeq(s) == IF s = <<>> THEN 0 ELSE Head(s) + SumSeq(Tail(s))

RECURSIVE SumSquares(_)
SumSquares(s) == IF s = <<>> THEN 0 ELSE Head(s) * Head(s) + SumSquares(Tail(s))


\* the elements of s at the positions in S, in ascending position order
RECURSIVE Pick(_, _)
Pick(s, S) ==
    IF S = {} THEN <<>>
    ELSE LET m == CHOOSE x \in S : \A y \in S : x <= y
         IN  <<s[m]>> \o Pick(s, S \ {m})

NonNull(hs) == SelectSeq(hs, LAMBDA h : h # NULL)

(***************************************************************************)
(* SQL scalar expressions over nullable numbers.                           *)
(***************************************************************************)
\* k * x for an integer literal k >= 0
MulInt(k, x) ==
    IF x.null THEN NullNumber
    ELSE Number(Rat(k * x.qn, x.qd), x.sgn, Rat(k * k * x.rn, x.rd))

\* x / SQRT(k) for x = sgn * sqrt(r), the only operands the query divides
DivSqrt(x, k) ==
    IF x.null THEN NullNumber
    ELSE Number(Rat(0, 1), x.sgn, Rat(x.rn, x.rd * k))

\* x + y, for y without a rational part or x without an irrational part
Add(x, y) ==
    IF x.null \/ y.null THEN NullNumber
    ELSE Number(Rat(x.qn * y.qd + y.qn * x.qd, x.qd * y.qd),
                IF y.sgn # 0 THEN y.sgn ELSE x.sgn,
                IF y.sgn # 0 THEN Rat(y.rn, y.rd) ELSE Rat(x.rn, x.rd))

\* x - y, under the same restriction
Sub(x, y) ==
    IF x.null \/ y.null THEN NullNumber
    ELSE Number(Rat(x.qn * y.qd - y.qn * x.qd, x.qd * y.qd),
                IF y.sgn # 0 THEN -y.sgn ELSE x.sgn,
                IF y.sgn # 0 THEN Rat(y.rn, y.rd) ELSE Rat(x.rn, x.rd))

\* the sign of h - x for a non-null height h and a non-null number x
Cmp(h, x) ==
    LET dn == h * x.qd - x.qn              \* h - q = dn / qd
        sq == dn * dn * x.rd - x.rn * x.qd * x.qd   \* sign of (h-q)^2 - r
    IN  IF x.sgn = 0 THEN Sign(dn)
        ELSE IF x.sgn = 1
             THEN (IF dn <= 0 THEN -1 ELSE Sign(sq))
             ELSE (IF dn >= 0 THEN 1 ELSE Sign(-sq))

(***************************************************************************)
(* SQL three-valued logic: "t", "f" and "null".                            *)
(***************************************************************************)
And3(p, q) ==
    IF p = "f" \/ q = "f" THEN "f"
    ELSE IF p = "t" /\ q = "t" THEN "t" ELSE "null"

Not3(p) == IF p = "t" THEN "f" ELSE IF p = "f" THEN "t" ELSE "null"

\* h >= x
Ge3(h, x) ==
    IF h = NULL \/ x.null THEN "null"
    ELSE IF Cmp(h, x) >= 0 THEN "t" ELSE "f"

\* h <= x
Le3(h, x) ==
    IF h = NULL \/ x.null THEN "null"
    ELSE IF Cmp(h, x) <= 0 THEN "t" ELSE "f"

\* variant of Between: both bounds exclusive
BetweenExclusive(h, lo, hi) ==
    And3(Not3(Le3(h, lo)), Not3(Ge3(h, hi)))

\* h BETWEEN lo AND hi
Between(h, lo, hi) == And3(Ge3(h, lo), Le3(h, hi))

(***************************************************************************)
(* Aggregates of PostgreSQL over the heights of a window frame; NULL       *)
(* inputs are ignored by both.                                             *)
(***************************************************************************)
\* variant of Avg: a missing height counts as 0, AVG(COALESCE(height, 0))
AvgNullAsZero(hs) ==
    IF Len(hs) = 0 THEN NullNumber
    ELSE Number(Rat(SumSeq([i \in DOMAIN hs |-> IF hs[i] = NULL THEN 0 ELSE hs[i]]),
                    Len(hs)), 0, Rat(0, 1))

\* AVG(height): NULL over no value
Avg(hs) ==
    LET v == NonNull(hs)
    IN  IF Len(v) = 0 THEN NullNumber
        ELSE Number(Rat(SumSeq(v), Len(v)), 0, Rat(0, 1))

\* variant of Stddev: 0 instead of NULL over a single value
StddevZeroForOneValue(hs) ==
    LET v == NonNull(hs)
        n == Len(v)
    IN  IF n = 0 THEN NullNumber
        ELSE IF n = 1 THEN Number(Rat(0, 1), 0, Rat(0, 1))
        ELSE Number(Rat(0, 1), 1,
                    Rat(n * SumSquares(v) - SumSeq(v) * SumSeq(v), n * (n - 1)))

\* STDDEV(height) = stddev_samp: NULL over fewer than two values
Stddev(hs) ==
    LET v == NonNull(hs)
        n == Len(v)
    IN  IF n < 2 THEN NullNumber
        ELSE Number(Rat(0, 1), 1,
                    Rat(n * SumSquares(v) - SumSeq(v) * SumSeq(v), n * (n - 1)))

(***************************************************************************)
(* The query.  WINDOW w: PARTITION BY operator ORDER BY item_no            *)
(* ROWS BETWEEN 4 PRECEDING AND CURRENT ROW.                               *)
(***************************************************************************)
\* the sort of the window: operator first, item_no second
SortsBefore(r1, r2) ==
    \/ r1.operator < r2.operator
    \/ r1.operator = r2.operator /\ r1.item_no < r2.item_no

\* the orders in which the sort can deliver the rows at the positions S:
\* rows that tie on operator and item_no come in any order
RECURSIVE OrdersOf(_, _)
OrdersOf(rows, S) ==
    IF S = {} THEN {<<>>}
    ELSE LET first == {i \in S : \A j \in S : ~SortsBefore(rows[j], rows[i])}
         IN  UNION {{<<i>> \o o : o \in OrdersOf(rows, S \ {i})} : i \in first}

\* the positions of rows, operator by operator, each operator's positions
\* ascending or (backwards) descending
RECURSIVE ByOperator(_, _, _)
ByOperator(rows, ops, backwards) ==
    IF ops = {} THEN <<>>
    ELSE LET op  == CHOOSE x \in ops : \A y \in ops : x <= y
             ids == Pick([i \in DOMAIN rows |-> i],
                         {i \in DOMAIN rows : rows[i].operator = op})
         IN  (IF backwards THEN [k \in DOMAIN ids |-> ids[Len(ids) + 1 - k]] ELSE ids)
                \o ByOperator(rows, ops \ {op}, backwards)

\* variant of Orders: the window lacks ORDER BY item_no, and the rows of an
\* operator come as the scan of the table delivers them, forwards or backwards
OrdersWithoutItemNo(rows) ==
    {ByOperator(rows, Operators, FALSE), ByOperator(rows, Operators, TRUE)}

\* variant of Orders: the rows are delivered in arrival order
OrdersInArrivalOrder(rows) == {[i \in DOMAIN rows |-> i]}

Orders(rows) == OrdersOf(rows, DOMAIN rows)

\* variant of PartitionOf: the window lacks PARTITION BY operator
WholeTable(sorted, i) == DOMAIN sorted

\* PARTITION BY operator: positions of the sorted rows in the partition of i
PartitionOf(sorted, i) ==
    {j \in DOMAIN sorted : sorted[j].operator = sorted[i].operator}

\* ROW_NUMBER() OVER w
RowNumber(sorted, i) == Cardinality({j \in PartitionOf(sorted, i) : j <= i})

\* variant of Frame: ROWS BETWEEN 5 PRECEDING AND CURRENT ROW
FrameFivePreceding(sorted, i) ==
    {j \in PartitionOf(sorted, i) :
        /\ j <= i
        /\ RowNumber(sorted, j) >= RowNumber(sorted, i) - (Preceding + 1)}

\* ROWS BETWEEN 4 PRECEDING AND CURRENT ROW: positions of the frame of i
Frame(sorted, i) ==
    {j \in PartitionOf(sorted, i) :
        /\ j <= i
        /\ RowNumber(sorted, j) >= RowNumber(sorted, i) - Preceding}

FrameHeights(sorted, i) ==
    Pick([j \in DOMAIN sorted |-> sorted[j].height], Frame(sorted, i))

\* innermost subquery a
SubqueryA(sorted, i) ==
    [operator      |-> sorted[i].operator,
     row_number    |-> RowNumber(sorted, i),
     height        |-> sorted[i].height,
     avg_height    |-> Avg(FrameHeights(sorted, i)),
     stddev_height |-> Stddev(FrameHeights(sorted, i))]

\* variant of ControlWidth: the divisor is the number of rows of the frame
ControlWidthByWindowSize(a) ==
    DivSqrt(MulInt(Sigmas, a.stddev_height),
            IF a.row_number < SqrtArg THEN a.row_number ELSE SqrtArg)

\* 3*a.stddev_height/SQRT(5)
ControlWidth(a) == DivSqrt(MulInt(Sigmas, a.stddev_height), SqrtArg)

\* subquery b: a.*, ucl, lcl
SubqueryB(a) ==
    [operator      |-> a.operator,
     row_number    |-> a.row_number,
     height        |-> a.height,
     avg_height    |-> a.avg_height,
     stddev_height |-> a.stddev_height,
     ucl           |-> Add(a.avg_height, ControlWidth(a)),
     lcl           |-> Sub(a.avg_height, ControlWidth(a))]

\* CASE WHEN b.height NOT BETWEEN b.lcl AND b.ucl THEN TRUE ELSE FALSE END
Alert(b) == Not3(Between(b.height, b.lcl, b.ucl)) = "t"

\* outer select: b.*, alert
OuterSelect(b) ==
    [operator      |-> b.operator,
     row_number    |-> b.row_number,
     height        |-> b.height,
     avg_height    |-> b.avg_height,
     stddev_height |-> b.stddev_height,
     ucl           |-> b.ucl,
     lcl           |-> b.lcl,
     alert         |-> Alert(b)]

\* the rows of the table in the order ord of the sort
Sorted(rows, ord) == [i \in DOMAIN ord |-> rows[ord[i]]]

\* the result set when the sort delivers the rows in the order ord
Evaluate(rows, ord) ==
    [i \in DOMAIN ord |-> OuterSelect(SubqueryB(SubqueryA(Sorted(rows, ord), i)))]

\* variant of Query: the query reads only the rows that have a height
QueryWhereHeightNotNull(rows) ==
    LET kept == SelectSeq(rows, LAMBDA r : r.height # NULL)
    IN  {Evaluate(kept, ord) : ord \in Orders(kept)}

\* the result sets the query can return over the rows of the table
Query(rows) == {Evaluate(rows, ord) : ord \in Orders(rows)}

(***************************************************************************)
(* Labelling of the result columns by position.                            *)
(***************************************************************************)
column_names(r) ==
    [Operator      |-> r.operator,
     Item_No       |-> r.row_number,
     Height        |-> r.height,
     Avg_Height    |-> r.avg_height,
     Stddev_Height |-> r.stddev_height,
     UCL           |-> r.ucl,
     LCL           |-> r.lcl,
     Alert         |-> r.alert]

(***************************************************************************)
(* The CSV files of the model: every short file over the full row domain,  *)
(* and longer files with unique item numbers, of one operator or of two    *)
(* operators in alternation, arriving in ascending item_no order (item     *)
(* numbers 1, 2, ...) or in descending order (item numbers ..., 4, 2),     *)
(* with each height missing, smallest or largest.                          *)
(***************************************************************************)
Row == [operator : Operators, item_no : ItemNos, height : NullableHeights]

ShortFiles == UNION {[1..n -> Row] : n \in 0..MaxRows}

LongFile(hs, alternating, descending) ==
    [i \in DOMAIN hs |->
        [operator |-> IF alternating THEN 1 + ((i - 1) % 2) ELSE 1,
         item_no  |-> IF descending THEN 2 * (Len(hs) + 1 - i) ELSE i,
         height   |-> hs[i]]]

LongFiles ==
    {LongFile(hs, a, d) :
        hs \in UNION {[1..n -> {NULL, 0, MaxHeight}] : n \in (MaxRows + 1)..MaxLong},
        a \in BOOLEAN,
        d \in BOOLEAN}

CsvFiles == ShortFiles \cup LongFiles

NoTable == [exists |-> FALSE, rows |-> <<>>]

(***************************************************************************)
(* The notebook.  A name that no cell has assigned yet holds <<>>.         *)
(***************************************************************************)
Init ==
    /\ csv \in CsvFiles
    /\ data_frame = <<>>
    /\ table = NoTable
    /\ result = <<>>
    /\ df = <<>>
    /\ filtered_df = <<>>
    /\ pc = "start"

\* cell 1: engine = create_engine(full_db_url)
Connect ==
    /\ pc = "start"
    /\ pc' = "connected"
    /\ UNCHANGED <<csv, data_frame, table, result, df, filtered_df>>

\* cell 2: data_frame = pd.read_csv('manufacturing_parts.csv')
LoadCsv ==
    /\ pc \in {"connected", "analyzed"}
    /\ data_frame' = csv
    /\ pc' = "loaded"
    /\ UNCHANGED <<csv, table, result, df, filtered_df>>

\* variant of ToSql: if_exists='append', the rows are added to the table
ToSqlAppend(tbl, frame) == [exists |-> TRUE, rows |-> tbl.rows \o frame]

\* data_frame.to_sql(..., if_exists='replace', index=False)
ToSql(tbl, frame) == [exists |-> TRUE, rows |-> frame]

\* cell 3
CreateTable ==
    /\ pc = "loaded"
    /\ table' = ToSql(table, data_frame)
    /\ pc' = "created"
    /\ UNCHANGED <<csv, data_frame, result, df, filtered_df>>

\* cell 4: result = connection.execute(query).fetchall()
ExecuteQuery ==
    /\ pc \in {"created", "queried"}
    /\ table.exists
    /\ result' \in Query(table.rows)
    /\ pc' = "queried"
    /\ UNCHANGED <<csv, data_frame, table, df, filtered_df>>

\* cell 5: df = pd.DataFrame(result, columns=column_names);
\*         filtered_df = df[df['Alert'] == True]
Analyze ==
    /\ pc = "queried"
    /\ df' = [i \in DOMAIN result |-> column_names(result[i])]
    /\ filtered_df' = SelectSeq(df', LAMBDA r : r.Alert = TRUE)
    /\ pc' = "analyzed"
    /\ UNCHANGED <<csv, data_frame, table, result>>

Next ==
    \/ Connect
    \/ LoadCsv
    \/ CreateTable
    \/ ExecuteQuery
    \/ Analyze

Spec == Init /\ [][Next]_vars

\* the result and the labelled frame were computed from the present table
Queried == pc \in {"queried", "analyzed"}

(***************************************************************************)
(* Vocabulary of the properties, stated over the table as it was loaded    *)
(* (arrival order), independently of the sort of the query.                *)
(***************************************************************************)
\* item_no is unique within every operator
UniqueItemNos(rows) ==
    \A i, j \in DOMAIN rows :
        (i # j /\ rows[i].operator = rows[j].operator)
            => rows[i].item_no # rows[j].item_no

SameOperator(rows, i) == {j \in DOMAIN rows : rows[j].operator = rows[i].operator}

\* k such that row i is the k-th record of its operator by ascending item_no
Rank(rows, i) ==
    1 + Cardinality({j \in SameOperator(rows, i) : rows[j].item_no < rows[i].item_no})

\* position of the output record of row i when the output is grouped by
\* operator and ordered by item_no within the operator
OutputPosition(rows, i) ==
    Cardinality({j \in DOMAIN rows : rows[j].operator < rows[i].operator})
        + Rank(rows, i)

Max(a, b) == IF a > b THEN a ELSE b

\* the records of the operator of row i ranked max(1,k-4)..k, k the rank of i
RankWindow(rows, i) ==
    {j \in SameOperator(rows, i) :
        /\ Rank(rows, j) >= Max(1, Rank(rows, i) - 4)
        /\ Rank(rows, j) <= Rank(rows, i)}

HeightsAt(rows, S) == Pick([j \in DOMAIN rows |-> rows[j].height], S)

RECURSIVE SumSquaredDeviations(_, _, _)
\* sum of (n*x - total)^2 over the values x of v
SumSquaredDeviations(v, n, total) ==
    IF v = <<>> THEN 0
    ELSE (n * Head(v) - total) * (n * Head(v) - total)
            + SumSquaredDeviations(Tail(v), n, total)

\* arithmetic mean of the present values, NULL when there is none
MeanOf(hs) ==
    LET v == NonNull(hs)
    IN  IF v = <<>> THEN NullNumber
        ELSE Number(Rat(SumSeq(v), Len(v)), 0, Rat(0, 1))

\* sample standard deviation (divisor n-1) of the present values, NULL when
\* there are fewer than two
SampleStddevOf(hs) ==
    LET v == NonNull(hs)
        n == Len(v)
    IN  IF n < 2 THEN NullNumber
        ELSE Number(Rat(0, 1), 1,
                    Rat(SumSquaredDeviations(v, n, SumSeq(v)), n * n * (n - 1)))

\* number of records with the given operator and height
CountIn(seq, op, h) ==
    Cardinality({i \in DOMAIN seq : seq[i].operator = op /\ seq[i].height = h})

TwoOperators(rows) == \E i, j \in DOMAIN rows : rows[i].operator # rows[j].operator

HasValue(x, h) == ~x.null /\ x.sgn = 0 /\ x.qn = h /\ x.qd = 1

(***************************************************************************)
(* C1: the query returns exactly one output record per row of the table:   *)
(* the lengths agree and every (operator, height) occurs as often in the   *)
(* output as in the table; the empty table yields the empty result.        *)
(***************************************************************************)
C1_OneOutputPerInput ==
    Queried =>
        /\ Len(result) = Len(table.rows)
        /\ \A op \in Operators, h \in NullableHeights :
              CountIn(result, op, h) = CountIn(table.rows, op, h)

C1_Witness ==
    /\ Queried
    /\ Len(result) >= 2
    /\ TwoOperators(table.rows)
    /\ \E i \in DOMAIN result : result[i].height = NULL

(***************************************************************************)
(* C2 (as claimed): the output record at position i is the record of the   *)
(* i-th input row, i.e. the output keeps the arrival order of the table.   *)
(***************************************************************************)
C2_InputOrderPreserved ==
    Queried =>
        \A i \in DOMAIN result :
            /\ i \in DOMAIN table.rows
            /\ result[i].operator = table.rows[i].operator
            /\ result[i].height = table.rows[i].height

(***************************************************************************)
(* C2 (amended): the output is grouped by operator in ascending operator   *)
(* order and, within an operator, ordered by ascending item_no: the record *)
(* with row number k of an operator is a row of that operator whose        *)
(* item_no is the k-th smallest of the operator (ties in either order).    *)
(***************************************************************************)
C2_OutputSortedByOperatorAndItemNo ==
    Queried =>
        /\ \A p, q \in DOMAIN result :
              p < q => result[p].operator <= result[q].operator
        /\ \A p \in DOMAIN result :
              \E i \in DOMAIN table.rows :
                  LET same  == SameOperator(table.rows, i)
                      below == {j \in same : table.rows[j].item_no < table.rows[i].item_no}
                      upto  == {j \in same : table.rows[j].item_no <= table.rows[i].item_no}
                  IN  /\ table.rows[i].operator = result[p].operator
                      /\ table.rows[i].height = result[p].height
                      /\ Cardinality(below) < result[p].row_number
                      /\ result[p].row_number <= Cardinality(upto)
        /\ \A p \in DOMAIN result :
              result[p].row_number =
                  Cardinality({q \in 1..p : result[q].operator = result[p].operator})

C2_Witness ==
    /\ Queried
    /\ TwoOperators(table.rows)
    /\ \E i, j \in DOMAIN table.rows :
          /\ i < j
          /\ table.rows[j].operator < table.rows[i].operator
          /\ result[1].height # table.rows[1].height

(***************************************************************************)
(* C3: with item_no unique within each operator, the avg and stddev of the *)
(* k-th record of an operator (by ascending item_no, whatever the arrival  *)
(* order) are the mean and the sample standard deviation of the heights of *)
(* that operator's records ranked max(1,k-4)..k.                           *)
(***************************************************************************)
C3_WindowIsLastFiveByItemNo ==
    (Queried /\ UniqueItemNos(table.rows)) =>
        \A i \in DOMAIN table.rows :
            LET out == result[OutputPosition(table.rows, i)]
                w   == HeightsAt(table.rows, RankWindow(table.rows, i))
            IN  /\ out.operator = table.rows[i].operator
                /\ out.height = table.rows[i].height
                /\ out.avg_height = MeanOf(w)
                /\ out.stddev_height = SampleStddevOf(w)

C3_Witness ==
    /\ Queried
    /\ UniqueItemNos(table.rows)
    /\ table.rows[1].item_no > table.rows[2].item_no
    /\ \E i, j \in DOMAIN table.rows :
          /\ Rank(table.rows, i) = 6
          /\ Rank(table.rows, j) = 1
          /\ table.rows[j].height = MaxHeight
          /\ HasValue(result[OutputPosition(table.rows, i)].avg_height, 0)

\* height < x and height > x as comparisons that are true (not unknown)
Below(h, x) == h # NULL /\ ~x.null /\ Cmp(h, x) < 0

Above(h, x) == h # NULL /\ ~x.null /\ Cmp(h, x) > 0

(***************************************************************************)
(* C4: for every output record, alert is true if and only if height < lcl  *)
(* or height > ucl; a height equal to lcl or to ucl is not flagged.        *)
(***************************************************************************)
C4_AlertIffOutsideLimits ==
    Queried =>
        \A p \in DOMAIN result :
            result[p].alert =
                (Below(result[p].height, result[p].lcl)
                    \/ Above(result[p].height, result[p].ucl))

C4_Witness ==
    /\ Queried
    /\ \E p, q \in DOMAIN result :
          /\ ~result[p].lcl.null
          /\ Cmp(result[p].height, result[p].lcl) = 0
          /\ ~result[p].alert
          /\ result[q].alert
          /\ Above(result[q].height, result[q].ucl)

(***************************************************************************)
(* C5 (as claimed): for the first record of every operator, stddev is 0,   *)
(* ucl and lcl are defined and equal to the record's value, alert is false.*)
(***************************************************************************)
C5_FirstRecordZeroStddev ==
    Queried =>
        \A p \in DOMAIN result :
            (result[p].row_number = 1 /\ result[p].height # NULL) =>
                /\ HasValue(result[p].stddev_height, 0)
                /\ HasValue(result[p].ucl, result[p].height)
                /\ HasValue(result[p].lcl, result[p].height)
                /\ ~result[p].alert

(***************************************************************************)
(* C5 (amended): for the first record of every operator (window size 1),   *)
(* avg is the record's own value, stddev, ucl and lcl are NULL (the sample *)
(* standard deviation of one value is undefined) and alert is false.       *)
(***************************************************************************)
C5_FirstRecordNullLimits ==
    Queried =>
        \A p \in DOMAIN result :
            result[p].row_number = 1 =>
                /\ result[p].stddev_height.null
                /\ result[p].ucl.null
                /\ result[p].lcl.null
                /\ ~result[p].alert
                /\ IF result[p].height = NULL
                   THEN result[p].avg_height.null
                   ELSE HasValue(result[p].avg_height, result[p].height)

C5_Witness ==
    /\ Queried
    /\ \E p, q \in DOMAIN result :
          /\ result[p].row_number = 1
          /\ result[p].height = MaxHeight
          /\ result[q].operator = result[p].operator
          /\ result[q].row_number = 2
          /\ ~result[q].ucl.null

\* ucl = avg + 3*stddev/sqrt(5) and lcl = avg - 3*stddev/sqrt(5), as numbers:
\* the rational parts are avg and the radicand of both is 9/5 of the variance
LimitsIdentity(r) ==
    /\ ~r.avg_height.null /\ ~r.stddev_height.null /\ ~r.ucl.null /\ ~r.lcl.null
    /\ r.ucl.qn = r.avg_height.qn /\ r.ucl.qd = r.avg_height.qd
    /\ r.lcl.qn = r.avg_height.qn /\ r.lcl.qd = r.avg_height.qd
    /\ r.ucl.sgn = r.stddev_height.sgn
    /\ r.lcl.sgn = -r.stddev_height.sgn
    /\ 5 * r.ucl.rn * r.stddev_height.rd = 9 * r.stddev_height.rn * r.ucl.rd
    /\ 5 * r.lcl.rn * r.stddev_height.rd = 9 * r.stddev_height.rn * r.lcl.rd

(***************************************************************************)
(* C6 (as claimed): every output record has numeric limits with            *)
(* ucl = avg + 3*stddev/sqrt(5) and lcl = avg - 3*stddev/sqrt(5), so that  *)
(* ucl - lcl = 6*stddev/sqrt(5) for all records.                           *)
(***************************************************************************)
C6_LimitsIdentityAllRecords ==
    Queried => \A p \in DOMAIN result : LimitsIdentity(result[p])

(***************************************************************************)
(* C6 (amended): every record whose window holds at least two heights has  *)
(* ucl = avg + 3*stddev/sqrt(5) and lcl = avg - 3*stddev/sqrt(5) with the  *)
(* constant divisor 5 whatever the window size (2 to 5); a record whose    *)
(* window holds fewer than two heights has NULL stddev, ucl and lcl.       *)
(***************************************************************************)
C6_LimitsIdentityWhereDefined ==
    Queried =>
        \A p \in DOMAIN result :
            IF result[p].stddev_height.null
            THEN result[p].ucl.null /\ result[p].lcl.null
            ELSE LimitsIdentity(result[p])

C6_Witness ==
    /\ Queried
    /\ \E p, q \in DOMAIN result :
          /\ result[p].row_number = 2
          /\ ~result[p].stddev_height.null
          /\ result[p].stddev_height.sgn = 1
          /\ result[q].row_number = 1
          /\ result[q].ucl.null

ValidSameOperator(rows, i) == {j \in SameOperator(rows, i) : rows[j].height # NULL}

\* rank of row i among the records of its operator that have a height
ValidRank(rows, i) ==
    1 + Cardinality({j \in ValidSameOperator(rows, i) :
                        rows[j].item_no < rows[i].item_no})

\* the up to 5 most recent records with a height, ending at row i
ValidWindow(rows, i) ==
    {j \in ValidSameOperator(rows, i) :
        /\ ValidRank(rows, j) >= Max(1, ValidRank(rows, i) - 4)
        /\ ValidRank(rows, j) <= ValidRank(rows, i)}

(***************************************************************************)
(* C8 (as claimed): a record without a height is reported as an error      *)
(* instead of being evaluated, and the windows of the other records of its *)
(* operator are the up to 5 most recent records that have a height: the    *)
(* invalid record neither contributes a value nor occupies a slot.         *)
(***************************************************************************)
C8_InvalidExcludedFromWindows ==
    (Queried /\ UniqueItemNos(table.rows)) =>
        \A i \in DOMAIN table.rows :
            IF table.rows[i].height = NULL
            THEN CountIn(result, table.rows[i].operator, NULL) = 0
            ELSE LET out == result[OutputPosition(table.rows, i)]
                     w   == HeightsAt(table.rows, ValidWindow(table.rows, i))
                 IN  /\ out.avg_height = MeanOf(w)
                     /\ out.stddev_height = SampleStddevOf(w)

(***************************************************************************)
(* C8 (amended): a record without a height is not reported as an error: it *)
(* is evaluated like any other record, with NULL height and alert false.   *)
(* It contributes no value to any avg or stddev, but it occupies one of    *)
(* the 5 row slots of every window it falls in: the statistics of a record *)
(* are those of the heights present among the records ranked max(1,k-4)..k.*)
(***************************************************************************)
C8_NullHeightOccupiesSlot ==
    (Queried /\ UniqueItemNos(table.rows)) =>
        \A i \in DOMAIN table.rows :
            LET out == result[OutputPosition(table.rows, i)]
                win == RankWindow(table.rows, i)
                w   == HeightsAt(table.rows, win)
            IN  /\ table.rows[i].height = NULL =>
                    /\ out.height = NULL
                    /\ out.operator = table.rows[i].operator
                    /\ out.row_number = Rank(table.rows, i)
                    /\ ~out.alert
                /\ (\E j \in win : table.rows[j].height = NULL) =>
                    /\ out.avg_height = MeanOf(w)
                    /\ out.stddev_height = SampleStddevOf(w)

C8_Witness ==
    /\ Queried
    /\ UniqueItemNos(table.rows)
    /\ \E i \in DOMAIN table.rows :
          /\ Rank(table.rows, i) = 6
          /\ table.rows[i].height # NULL
          /\ \E j \in RankWindow(table.rows, i) : table.rows[j].height = NULL
          /\ MeanOf(HeightsAt(table.rows, RankWindow(table.rows, i)))
                # MeanOf(HeightsAt(table.rows, ValidWindow(table.rows, i)))

\* the records of one operator, in the order of the sequence
SelectOperator(seq, op) == SelectSeq(seq, LAMBDA r : r.operator = op)

(***************************************************************************)
(* C9: the output records of an operator are those the query returns over  *)
(* the rows of that operator alone: rows of other operators, with or       *)
(* without a height, change none of them and do not stop their evaluation. *)
(***************************************************************************)
C9_OperatorsIndependent ==
    Queried =>
        \A op \in Operators :
            SelectOperator(result, op) \in Query(SelectOperator(table.rows, op))

C9_Witness ==
    /\ Queried
    /\ \E i, j, k \in DOMAIN table.rows :
          /\ i < j /\ j < k
          /\ table.rows[i].operator = table.rows[k].operator
          /\ table.rows[j].operator # table.rows[i].operator
          /\ table.rows[j].height = NULL
          /\ table.rows[i].height # NULL
          /\ table.rows[k].height # NULL
          /\ table.rows[i].item_no # table.rows[k].item_no
    /\ \E p \in DOMAIN result : ~result[p].stddev_height.null

(***************************************************************************)
(* C10: every record of the labelled frame carries, in the column Item_No, *)
(* the item_no of the row of the table it was computed from: some row of   *)
(* the table has its Operator, its Height and its Item_No.                 *)
(***************************************************************************)
C10_ItemNoIsSourceItemNo ==
    pc = "analyzed" =>
        \A p \in DOMAIN df :
            \E i \in DOMAIN table.rows :
                /\ table.rows[i].operator = df[p].Operator
                /\ table.rows[i].height = df[p].Height
                /\ table.rows[i].item_no = df[p].Item_No

\* the query cell is executed in a run of the notebook that follows an
\* earlier run: the result of the earlier run is still assigned
QueryOfRerun == pc = "created" /\ pc' = "queried" /\ result # <<>>

=============================================================================
